---- MODULE Spec2Model ----
(***************************************************************************)
(* Content lifecycle and engagement engine of the blogging backend:        *)
(* the Blog and Comment documents, and the request handlers of the blog,   *)
(* comment and admin controllers.                                          *)
(*                                                                         *)
(* A handler is a sequence of database calls.  Each `await` of a handler   *)
(* is one atomic step of the model; the synchronous code that follows the  *)
(* await belongs to the same step.  Several requests may be in flight      *)
(* (one per slot) and their steps interleave freely.                       *)
(*                                                                         *)
(* Documents are Mongoose documents.  `doc.save()` on a loaded document    *)
(* sends one update (the delta) holding only the paths that were modified  *)
(* since the load (a path assigned the value it already had is not         *)
(* modified).  The delta is fixed by the synchronous code that follows the *)
(* load; the request carries it until its save is applied:                 *)
(*   - a modified scalar path is $set to its local value;                  *)
(*   - `array.push(x)` is sent as $push: x is appended to the stored array *)
(*     and the version key is incremented;                                 *)
(*   - `array.splice(..)` and an assignment to an array path are sent as a *)
(*     $set of the whole local array, guarded by the version key read at   *)
(*     load time: if another write has incremented the version since, the  *)
(*     save throws (VersionError) and writes nothing.                      *)
(* `findByIdAndUpdate` and `updateMany` are applied to the stored          *)
(* documents directly.                                                     *)
(***************************************************************************)
EXTENDS Integers, Sequences, FiniteSets, TLC

\* ------------------------------------------------------------------ bounds
MaxBlogs == 1
MaxComments == 2
MaxReq == 2
MaxClock == 3
MaxDrift == 1
MaxViews == 2
MaxThread == 3

\* ------------------------------------------------------------ value spaces
Users == {"ann", "bob", "root"}
Admins == {"root"}
Titles == {"t1", "t2"}
Contents == {"c1", "c2"}
TagLists == {"g1", "g2"}
Reasons == {"spam", "dup"}
Statuses == {"pending", "published", "rejected"}
None == "none"
Slots == 1..MaxReq
BlogIds == 1..MaxBlogs
CommentIds == 1..MaxComments

\* publishedAt: a path that was never set, null, or a Date (a clock reading >= 1)
Absent == -1
Null == 0

VARIABLES users, blogs, comments, req, resp, now
vars == <<users, blogs, comments, req, resp, now>>

\* ----------------------------------------------------------------- helpers
NoPaths == [f \in {} |-> 0]
NoDelta == [set |-> NoPaths, push |-> None, versioned |-> FALSE]

\* the inputs of a request (req.params, req.body) and what the handler keeps of its reads
NoArg == [none |-> TRUE]

Idle == [op |-> "none", pc |-> "idle", user |-> None, id |-> 0,
         delta |-> NoDelta, arg |-> NoArg, stale |-> FALSE]

IsIdle(r) == req[r].pc = "idle"
Quiet == \A r \in Slots : IsIdle(r)

\* Array.prototype.indexOf: the first position of x in s, 0 when absent
IndexOf(s, x) ==
  IF \E i \in 1..Len(s) : s[i] = x
  THEN CHOOSE i \in 1..Len(s) : s[i] = x /\ \A j \in 1..(i - 1) : s[j] # x
  ELSE 0

\* Array.prototype.splice(i, 1)
RemoveAt(s, i) == [j \in 1..(Len(s) - 1) |-> IF j < i THEN s[j] ELSE s[j + 1]]

\* doc[f] = v in the handler: path f is modified when v differs from the loaded value
Assign(doc, f, v) == IF doc[f] # v THEN f :> v ELSE NoPaths

\* the stored document after the update `delta` is applied to it
applyDelta(stored, delta) ==
  [f \in DOMAIN stored |->
     IF f \in DOMAIN delta.set THEN delta.set[f]
     ELSE IF f = "likes" /\ delta.push # None THEN Append(stored[f], delta.push)
     ELSE stored[f]]

\* the collection a handler's loaded document belongs to
CollOf(op) ==
  IF op \in {"approveBlog", "rejectBlog", "updateBlog", "toggleLike",
             "createComment", "deleteBlogAdmin", "deleteBlog", "getBlogBySlug"}
  THEN "blog"
  ELSE IF op \in {"toggleCommentLike", "deleteComment", "deleteCommentAdmin",
                  "updateComment"}
  THEN "comment"
  ELSE "user"

\* an update that pushes to or sets an array increments the document's version key
IncrementsVersion(delta) == delta.push # None \/ delta.versioned

\* the version key of document (coll, id) was incremented by slot self: every
\* other request holding a copy of that document now holds a stale version
BumpVersion(rq, coll, id, self) ==
  [s \in Slots |->
     IF s # self /\ rq[s].pc # "idle" /\ CollOf(rq[s].op) = coll /\ rq[s].id = id
     THEN [rq[s] EXCEPT !.stale = TRUE]
     ELSE rq[s]]

\* the request in slot r has answered; its save incremented the version or not
Finish(rq, r, coll) ==
  [(IF IncrementsVersion(rq[r].delta) THEN BumpVersion(rq, coll, rq[r].id, r) ELSE rq)
     EXCEPT ![r] = Idle]

\* a save whose update is guarded by the version key fails on a stale version
VersionError(r) == req[r].delta.versioned /\ req[r].stale

Begin(r, op, pc, u, id, delta, arg) ==
  [req EXCEPT ![r] = [op |-> op, pc |-> pc, user |-> u, id |-> id,
                      delta |-> delta, arg |-> arg, stale |-> FALSE]]

\* the request in slot r has saved and goes on to its next database call
Continue(rq, r, coll, pc) ==
  [(IF IncrementsVersion(rq[r].delta) THEN BumpVersion(rq, coll, rq[r].id, r) ELSE rq)
     EXCEPT ![r].pc = pc]

\* res.status(200 | 201).json(..) of a handler that ran to its end
Answer(rq) ==
  IF rq.op \in {"toggleLike", "toggleCommentLike"}
  THEN IF rq.arg.isLiked THEN "Liked" ELSE "Unliked"
  ELSE IF rq.op \in {"createBlog", "createComment"} THEN "Created"
  ELSE "OK"

isAdminAnyone(u) == users[u].role \in {"admin", "user"}

\* isAdmin middleware
isAdmin(u) == users[u].role = "admin"

\* ------------------------------------------------------------------- Init
Init ==
  /\ users = [u \in Users |->
                [role |-> IF u \in Admins THEN "admin" ELSE "user", isActive |-> TRUE]]
  /\ blogs = <<>>
  /\ comments = <<>>
  /\ req = [r \in Slots |-> Idle]
  /\ resp = "none"
  /\ now = 1

\* ------------------------------------------------------------- createBlog
\* The document Blog.create stores: the handler passes title, content, tags,
\* author and the literal status "pending"; every other path takes its
\* schema default.  body.status is whatever the caller put in the request.
createBlogDocFromBody(u, body) ==
  [author |-> u, title |-> body.title, content |-> body.content,
   tags |-> IF body.tags = None THEN "g0" ELSE body.tags,
   status |-> body.status, publishedAt |-> Absent, views |-> 0,
   likes |-> <<>>, likesCount |-> 0, commentsCount |-> 0,
   isDeleted |-> FALSE, rejectionReason |-> ""]

createBlogDoc(u, body) ==
  [author |-> u, title |-> body.title, content |-> body.content,
   tags |-> IF body.tags = None THEN "g0" ELSE body.tags,
   status |-> "pending", publishedAt |-> Absent, views |-> 0,
   likes |-> <<>>, likesCount |-> 0, commentsCount |-> 0,
   isDeleted |-> FALSE, rejectionReason |-> ""]

CreateBlog(r, u, body) ==
  /\ IsIdle(r)
  /\ Len(blogs) < MaxBlogs
  /\ blogs' = Append(blogs, createBlogDoc(u, body))
  /\ resp' = "Created"
  /\ UNCHANGED <<users, comments, req, now>>

\* blog.save() of a loaded blog: one update of the stored document, after which
\* the handler answers (pc = "idle") or goes on to its next database call
BlogSave(r, op, pc) ==
  /\ req[r].op = op /\ req[r].pc = "save"
  /\ IF VersionError(r)
     THEN /\ resp' = "ServerError"
          /\ req' = [req EXCEPT ![r] = Idle]
          /\ UNCHANGED blogs
     ELSE /\ blogs' = [blogs EXCEPT ![req[r].id] = applyDelta(blogs[req[r].id], req[r].delta)]
          /\ IF pc = "idle"
             THEN /\ req' = Finish(req, r, "blog")
                  /\ resp' = Answer(req[r])
             ELSE /\ req' = Continue(req, r, "blog", pc)
                  /\ UNCHANGED resp
  /\ UNCHANGED <<users, comments, now>>

\* comment.save() of a loaded comment
CommentSave(r, op, pc) ==
  /\ req[r].op = op /\ req[r].pc = "save"
  /\ IF VersionError(r)
     THEN /\ resp' = "ServerError"
          /\ req' = [req EXCEPT ![r] = Idle]
          /\ UNCHANGED comments
     ELSE /\ comments' = [comments EXCEPT ![req[r].id] =
                            applyDelta(comments[req[r].id], req[r].delta)]
          /\ IF pc = "idle"
             THEN /\ req' = Finish(req, r, "comment")
                  /\ resp' = Answer(req[r])
             ELSE /\ req' = Continue(req, r, "comment", pc)
                  /\ UNCHANGED resp
  /\ UNCHANGED <<users, blogs, now>>

\* a request that is waiting for a database call fails there (the call throws, or
\* the process dies): the handler's catch answers 500 and nothing more is written
Abort(r) ==
  /\ ~IsIdle(r)
  /\ req' = [req EXCEPT ![r] = Idle]
  /\ resp' = "ServerError"
  /\ UNCHANGED <<users, blogs, comments, now>>

\* ------------------------------------------------------------ approveBlog
\* blog.status = "published"; blog.publishedAt = new Date();
\* blog.rejectionReason = "";
approveBlogDeltaKeepsReason(doc, date) ==
  [NoDelta EXCEPT !.set = Assign(doc, "status", "published")
                          @@ Assign(doc, "publishedAt", date)]

approveBlogDelta(doc, date) ==
  [NoDelta EXCEPT !.set = Assign(doc, "status", "published")
                          @@ Assign(doc, "publishedAt", date)
                          @@ Assign(doc, "rejectionReason", "")]

ApproveLoadNoGuard(r, u, b) ==
  /\ IsIdle(r)
  /\ isAdmin(u)
  /\ IF b \notin DOMAIN blogs
     THEN /\ resp' = "NotFound"
          /\ UNCHANGED <<req, now>>
     ELSE /\ now <= MaxClock
          /\ req' = Begin(r, "approveBlog", "save", u, b,
                          approveBlogDelta(blogs[b], now), [date |-> now])
          /\ now' = now + 1
          /\ UNCHANGED resp
  /\ UNCHANGED <<users, blogs, comments>>

ApproveLoad(r, u, b) ==
  /\ IsIdle(r)
  /\ isAdmin(u)
  /\ IF b \notin DOMAIN blogs
     THEN /\ resp' = "NotFound"
          /\ UNCHANGED <<req, now>>
     ELSE IF blogs[b].status = "published"
     THEN /\ resp' = "AlreadyPublished"
          /\ UNCHANGED <<req, now>>
     ELSE /\ now <= MaxClock
          /\ req' = Begin(r, "approveBlog", "save", u, b, approveBlogDelta(blogs[b], now), [date |-> now])
          /\ now' = now + 1
          /\ UNCHANGED resp
  /\ UNCHANGED <<users, blogs, comments>>

ApproveSave(r) == BlogSave(r, "approveBlog", "idle")

\* ------------------------------------------------------------- rejectBlog
\* blog.status = "rejected"; blog.rejectionReason = reason;
\* blog.publishedAt = null;
rejectBlogDeltaKeepsDate(doc, reason) ==
  [NoDelta EXCEPT !.set = Assign(doc, "status", "rejected")
                          @@ Assign(doc, "rejectionReason", reason)]

rejectBlogDelta(doc, reason) ==
  [NoDelta EXCEPT !.set = Assign(doc, "status", "rejected")
                          @@ Assign(doc, "rejectionReason", reason)
                          @@ Assign(doc, "publishedAt", Null)]

RejectLoad(r, u, b, reason) ==
  /\ IsIdle(r)
  /\ isAdmin(u)
  /\ IF reason = ""
     THEN /\ resp' = "ReasonRequired"
          /\ UNCHANGED req
     ELSE IF b \notin DOMAIN blogs
     THEN /\ resp' = "NotFound"
          /\ UNCHANGED req
     ELSE /\ req' = Begin(r, "rejectBlog", "save", u, b, rejectBlogDelta(blogs[b], reason), [reason |-> reason])
          /\ UNCHANGED resp
  /\ UNCHANGED <<users, blogs, comments, now>>

RejectSave(r) == BlogSave(r, "rejectBlog", "idle")

\* ------------------------------------------------------------- updateBlog
\* if (title) blog.title = title; if (content) blog.content = content;
\* if (tags) blog.tags = tags;
\* if (blog.status === "published" && (title || content))
\*   { blog.status = "pending"; blog.publishedAt = null; }
updateBlogDeltaDemotesOnTags(doc, body) ==
  [NoDelta EXCEPT
     !.set = (IF body.title # None THEN Assign(doc, "title", body.title) ELSE NoPaths)
             @@ (IF body.content # None THEN Assign(doc, "content", body.content) ELSE NoPaths)
             @@ (IF body.tags # None THEN Assign(doc, "tags", body.tags) ELSE NoPaths)
             @@ (IF doc.status = "published"
                    /\ (body.title # None \/ body.content # None \/ body.tags # None)
                 THEN Assign(doc, "status", "pending") @@ Assign(doc, "publishedAt", Null)
                 ELSE NoPaths),
     !.versioned = body.tags # None /\ doc.tags # body.tags]

updateBlogDeltaClearsLikes(doc, body) ==
  [NoDelta EXCEPT
     !.set = (IF body.title # None THEN Assign(doc, "title", body.title) ELSE NoPaths)
             @@ (IF body.content # None THEN Assign(doc, "content", body.content) ELSE NoPaths)
             @@ (IF body.tags # None THEN Assign(doc, "tags", body.tags) ELSE NoPaths)
             @@ (IF doc.status = "published" /\ (body.title # None \/ body.content # None)
                 THEN Assign(doc, "status", "pending") @@ Assign(doc, "publishedAt", Null)
                      @@ Assign(doc, "likes", <<>>) @@ Assign(doc, "likesCount", 0)
                 ELSE NoPaths),
     !.versioned = body.tags # None /\ doc.tags # body.tags]

updateBlogDelta(doc, body) ==
  [NoDelta EXCEPT
     !.set = (IF body.title # None THEN Assign(doc, "title", body.title) ELSE NoPaths)
             @@ (IF body.content # None THEN Assign(doc, "content", body.content) ELSE NoPaths)
             @@ (IF body.tags # None THEN Assign(doc, "tags", body.tags) ELSE NoPaths)
             @@ (IF doc.status = "published" /\ (body.title # None \/ body.content # None)
                 THEN Assign(doc, "status", "pending") @@ Assign(doc, "publishedAt", Null)
                 ELSE NoPaths),
     !.versioned = body.tags # None /\ doc.tags # body.tags]

UpdateLoad(r, u, b, body) ==
  /\ IsIdle(r)
  /\ IF b \notin DOMAIN blogs
     THEN /\ resp' = "NotFound"
          /\ UNCHANGED req
     ELSE IF blogs[b].author # u
     THEN /\ resp' = "Forbidden"
          /\ UNCHANGED req
     ELSE /\ req' = Begin(r, "updateBlog", "save", u, b, updateBlogDelta(blogs[b], body), body)
          /\ UNCHANGED resp
  /\ UNCHANGED <<users, blogs, comments, now>>

UpdateSave(r) == BlogSave(r, "updateBlog", "idle")

\* ------------------------------------------------------------- toggleLike
\* likeIndex = doc.likes.indexOf(userId);
\* likeIndex === -1 ? doc.likes.push(userId) : doc.likes.splice(likeIndex, 1);
\* pre("save"): if (this.isModified("likes")) this.likesCount = this.likes.length;
toggleLikeDeltaSetsArray(doc, u) ==
  IF IndexOf(doc.likes, u) = 0
  THEN [NoDelta EXCEPT !.set = ("likes" :> Append(doc.likes, u))
                               @@ Assign(doc, "likesCount", Len(doc.likes) + 1)]
  ELSE [NoDelta EXCEPT !.set = ("likes" :> RemoveAt(doc.likes, IndexOf(doc.likes, u)))
                               @@ Assign(doc, "likesCount", Len(doc.likes) - 1),
                       !.versioned = TRUE]

toggleLikeDeltaNeverRemoves(doc, u) ==
  IF IndexOf(doc.likes, u) = 0
  THEN [NoDelta EXCEPT !.push = u,
                       !.set = Assign(doc, "likesCount", Len(doc.likes) + 1)]
  ELSE NoDelta

toggleLikeDelta(doc, u) ==
  IF IndexOf(doc.likes, u) = 0
  THEN [NoDelta EXCEPT !.push = u,
                       !.set = Assign(doc, "likesCount", Len(doc.likes) + 1)]
  ELSE [NoDelta EXCEPT !.set = ("likes" :> RemoveAt(doc.likes, IndexOf(doc.likes, u)))
                               @@ Assign(doc, "likesCount", Len(doc.likes) - 1),
                       !.versioned = TRUE]

ToggleLikeLoad(r, u, b) ==
  /\ IsIdle(r)
  /\ IF b \notin DOMAIN blogs
     THEN /\ resp' = "NotFound"
          /\ UNCHANGED req
     ELSE IF blogs[b].status # "published"
     THEN /\ resp' = "NotPublished"
          /\ UNCHANGED req
     ELSE /\ req' = Begin(r, "toggleLike", "save", u, b, toggleLikeDelta(blogs[b], u),
                          [isLiked |-> IndexOf(blogs[b].likes, u) = 0])
          /\ UNCHANGED resp
  /\ UNCHANGED <<users, blogs, comments, now>>

ToggleLikeSave(r) == BlogSave(r, "toggleLike", "idle")

\* ------------------------------------------------------ toggleCommentLike
ToggleCommentLikeLoad(r, u, c) ==
  /\ IsIdle(r)
  /\ IF c \notin DOMAIN comments
     THEN /\ resp' = "NotFound"
          /\ UNCHANGED req
     ELSE /\ req' = Begin(r, "toggleCommentLike", "save", u, c,
                          toggleLikeDelta(comments[c], u),
                          [isLiked |-> IndexOf(comments[c].likes, u) = 0])
          /\ UNCHANGED resp
  /\ UNCHANGED <<users, blogs, comments, now>>

ToggleCommentLikeSave(r) == CommentSave(r, "toggleCommentLike", "idle")

\* ---------------------------------------------------------- createComment
\* the document Comment.create stores
createCommentDoc(b, u, body) ==
  [blog |-> b, user |-> u, content |-> body.content, parentComment |-> body.parent,
   replies |-> <<>>, likes |-> <<>>, likesCount |-> 0,
   isEdited |-> FALSE, isDeleted |-> FALSE]

createCommentDeltaByTwo(doc) ==
  [NoDelta EXCEPT !.set = Assign(doc, "commentsCount", doc.commentsCount + 2)]

\* blog.commentsCount += 1, on the copy loaded by the handler's first call
createCommentDelta(doc) ==
  [NoDelta EXCEPT !.set = Assign(doc, "commentsCount", doc.commentsCount + 1)]

\* comments the requests in flight are still to create
ToCreate == Cardinality({s \in Slots : req[s].op = "createComment"
                                        /\ req[s].pc \in {"parent", "create"}})

\* fewer than n comments are stored or about to be
Room(n) == Len(comments) + ToCreate < n

CreateCommentLoadAnyStatus(r, u, b, body) ==
  /\ IsIdle(r)
  /\ IF b \notin DOMAIN blogs
     THEN /\ resp' = "NotFound"
          /\ UNCHANGED req
     ELSE /\ req' = Begin(r, "createComment",
                          IF body.parent # 0 THEN "parent" ELSE "create",
                          u, b, createCommentDelta(blogs[b]),
                          [parent |-> body.parent, content |-> body.content, cid |-> 0])
          /\ UNCHANGED resp
  /\ UNCHANGED <<users, blogs, comments, now>>

\* Blog.findById(blogId), and the checks of the blog
CreateCommentLoad(r, u, b, body) ==
  /\ IsIdle(r)
  /\ IF b \notin DOMAIN blogs
     THEN /\ resp' = "NotFound"
          /\ UNCHANGED req
     ELSE IF blogs[b].status # "published"
     THEN /\ resp' = "NotPublished"
          /\ UNCHANGED req
     ELSE /\ req' = Begin(r, "createComment",
                          IF body.parent # 0 THEN "parent" ELSE "create",
                          u, b, createCommentDelta(blogs[b]),
                          [parent |-> body.parent, content |-> body.content, cid |-> 0])
          /\ UNCHANGED resp
  /\ UNCHANGED <<users, blogs, comments, now>>

CreateCommentParentLiveOnly(r) ==
  /\ req[r].op = "createComment" /\ req[r].pc = "parent"
  /\ IF req[r].arg.parent \notin DOMAIN comments
        \/ (req[r].arg.parent \in DOMAIN comments /\ comments[req[r].arg.parent].isDeleted)
     THEN /\ resp' = "ParentNotFound"
          /\ req' = [req EXCEPT ![r] = Idle]
     ELSE /\ req' = [req EXCEPT ![r].pc = "create"]
          /\ UNCHANGED resp
  /\ UNCHANGED <<users, blogs, comments, now>>

\* Comment.findById(parentComment)
CreateCommentParent(r) ==
  /\ req[r].op = "createComment" /\ req[r].pc = "parent"
  /\ IF req[r].arg.parent \notin DOMAIN comments
     THEN /\ resp' = "ParentNotFound"
          /\ req' = [req EXCEPT ![r] = Idle]
     ELSE /\ req' = [req EXCEPT ![r].pc = "create"]
          /\ UNCHANGED resp
  /\ UNCHANGED <<users, blogs, comments, now>>

\* Comment.create(..)
CreateCommentCreate(r) ==
  /\ req[r].op = "createComment" /\ req[r].pc = "create"
  /\ comments' = Append(comments, createCommentDoc(req[r].id, req[r].user, req[r].arg))
  /\ req' = [req EXCEPT ![r].pc = IF req[r].arg.parent # 0 THEN "push" ELSE "save",
                        ![r].arg.cid = Len(comments) + 1]
  /\ UNCHANGED <<users, blogs, resp, now>>

CreateCommentPushFront(r) ==
  /\ req[r].op = "createComment" /\ req[r].pc = "push"
  /\ comments' = [comments EXCEPT ![req[r].arg.parent].replies = <<req[r].arg.cid>> \o @]
  /\ req' = [req EXCEPT ![r].pc = "save"]
  /\ UNCHANGED <<users, blogs, resp, now>>

\* Comment.findByIdAndUpdate(parentComment, { $push: { replies: comment._id } })
CreateCommentPush(r) ==
  /\ req[r].op = "createComment" /\ req[r].pc = "push"
  /\ comments' = [comments EXCEPT ![req[r].arg.parent].replies = Append(@, req[r].arg.cid)]
  /\ req' = [req EXCEPT ![r].pc = "save"]
  /\ UNCHANGED <<users, blogs, resp, now>>

\* blog.save()
CreateCommentSave(r) == BlogSave(r, "createComment", "idle")

\* ---------------------------------------- deleteComment, deleteCommentAdmin
deleteCommentDeltaUnlinks(doc, placeholder) ==
  [NoDelta EXCEPT !.set = Assign(doc, "isDeleted", TRUE)
                          @@ Assign(doc, "content", placeholder)
                          @@ Assign(doc, "replies", <<>>)
                          @@ Assign(doc, "parentComment", 0)]

\* comment.isDeleted = true; comment.content = placeholder;
deleteCommentDelta(doc, placeholder) ==
  [NoDelta EXCEPT !.set = Assign(doc, "isDeleted", TRUE)
                          @@ Assign(doc, "content", placeholder)]

\* commentsCount has no lower limit in the code: the model stops deleting at -MaxDrift
CanDecrement(c) ==
  c \in DOMAIN comments => blogs[comments[c].blog].commentsCount > 0 - MaxDrift

DeleteCommentLoad(r, u, c) ==
  /\ IsIdle(r)
  /\ CanDecrement(c)
  /\ IF c \notin DOMAIN comments
     THEN /\ resp' = "NotFound"
          /\ UNCHANGED req
     ELSE IF comments[c].user # u
     THEN /\ resp' = "Forbidden"
          /\ UNCHANGED req
     ELSE /\ req' = Begin(r, "deleteComment", "save", u, c,
                          deleteCommentDelta(comments[c], "[deleted]"),
                          [blog |-> comments[c].blog])
          /\ UNCHANGED resp
  /\ UNCHANGED <<users, blogs, comments, now>>

DeleteCommentSave(r) == CommentSave(r, "deleteComment", "count")

DeleteCommentAdminLoad(r, u, c) ==
  /\ IsIdle(r)
  /\ CanDecrement(c)
  /\ isAdmin(u)
  /\ IF c \notin DOMAIN comments
     THEN /\ resp' = "NotFound"
          /\ UNCHANGED req
     ELSE /\ req' = Begin(r, "deleteCommentAdmin", "save", u, c,
                          deleteCommentDelta(comments[c], "[deleted by admin]"),
                          [blog |-> comments[c].blog])
          /\ UNCHANGED resp
  /\ UNCHANGED <<users, blogs, comments, now>>

DeleteCommentAdminSave(r) == CommentSave(r, "deleteCommentAdmin", "count")

decrementCommentsCountTwice(stored) == [stored EXCEPT !.commentsCount = @ - 2]

\* Blog.findByIdAndUpdate(comment.blog, { $inc: { commentsCount: -1 } })
decrementCommentsCount(stored) == [stored EXCEPT !.commentsCount = @ - 1]

DeleteCommentCount(r) ==
  /\ req[r].op \in {"deleteComment", "deleteCommentAdmin"} /\ req[r].pc = "count"
  /\ blogs' = [blogs EXCEPT ![req[r].arg.blog] = decrementCommentsCount(@)]
  /\ req' = [req EXCEPT ![r] = Idle]
  /\ resp' = "OK"
  /\ UNCHANGED <<users, comments, now>>

\* -------------------------------------------------------- deleteBlogAdmin
\* blog.isDeleted = true;
deleteBlogDelta(doc) == [NoDelta EXCEPT !.set = Assign(doc, "isDeleted", TRUE)]

DeleteBlogAdminLoad(r, u, b) ==
  /\ IsIdle(r)
  /\ isAdmin(u)
  /\ IF b \notin DOMAIN blogs
     THEN /\ resp' = "NotFound"
          /\ UNCHANGED req
     ELSE /\ req' = Begin(r, "deleteBlogAdmin", "save", u, b, deleteBlogDelta(blogs[b]), NoArg)
          /\ UNCHANGED resp
  /\ UNCHANGED <<users, blogs, comments, now>>

DeleteBlogAdminSave(r) == BlogSave(r, "deleteBlogAdmin", "cascade")

\* Comment.updateMany({ blog: id }, { isDeleted: true })
deleteCommentsOfBlog(cs, b) ==
  [c \in DOMAIN cs |-> IF cs[c].blog = b THEN [cs[c] EXCEPT !.isDeleted = TRUE] ELSE cs[c]]

DeleteBlogAdminCascade(r) ==
  /\ req[r].op = "deleteBlogAdmin" /\ req[r].pc = "cascade"
  /\ comments' = deleteCommentsOfBlog(comments, req[r].id)
  /\ req' = [req EXCEPT ![r] = Idle]
  /\ resp' = "OK"
  /\ UNCHANGED <<users, blogs, now>>

\* ------------------------------------------------------------- deleteBlog
DeleteBlogLoad(r, u, b) ==
  /\ IsIdle(r)
  /\ IF b \notin DOMAIN blogs
     THEN /\ resp' = "NotFound"
          /\ UNCHANGED req
     ELSE IF blogs[b].author # u
     THEN /\ resp' = "Forbidden"
          /\ UNCHANGED req
     ELSE /\ req' = Begin(r, "deleteBlog", "save", u, b, deleteBlogDelta(blogs[b]), NoArg)
          /\ UNCHANGED resp
  /\ UNCHANGED <<users, blogs, comments, now>>

DeleteBlogSaveCascades(r) ==
  /\ req[r].op = "deleteBlog" /\ req[r].pc = "save"
  /\ blogs' = [blogs EXCEPT ![req[r].id] = applyDelta(blogs[req[r].id], req[r].delta)]
  /\ comments' = deleteCommentsOfBlog(comments, req[r].id)
  /\ req' = Finish(req, r, "blog")
  /\ resp' = "OK"
  /\ UNCHANGED <<users, now>>

DeleteBlogSave(r) == BlogSave(r, "deleteBlog", "idle")

\* ---------------------------------------------------------- getBlogBySlug
\* blog.views += 1, unless the author reads their own blog
viewDelta(doc) == [NoDelta EXCEPT !.set = Assign(doc, "views", doc.views + 1)]

GetBlogBySlugLoadCountsAuthor(r, u, b) ==
  /\ IsIdle(r)
  /\ IF b \notin DOMAIN blogs \/ blogs[b].isDeleted
     THEN /\ resp' = "NotFound"
          /\ UNCHANGED req
     ELSE /\ blogs[b].views < MaxViews
          /\ req' = Begin(r, "getBlogBySlug", "save", u, b, viewDelta(blogs[b]), NoArg)
          /\ UNCHANGED resp
  /\ UNCHANGED <<users, blogs, comments, now>>

\* Blog.findOne({ slug, isDeleted: false }); u is None for a reader who is not
\* logged in (optionalAuth)
GetBlogBySlugLoad(r, u, b) ==
  /\ IsIdle(r)
  /\ IF b \notin DOMAIN blogs \/ blogs[b].isDeleted
     THEN /\ resp' = "NotFound"
          /\ UNCHANGED req
     ELSE IF u = None \/ u # blogs[b].author
     THEN /\ blogs[b].views < MaxViews
          /\ req' = Begin(r, "getBlogBySlug", "save", u, b, viewDelta(blogs[b]), NoArg)
          /\ UNCHANGED resp
     ELSE /\ resp' = "OK"
          /\ UNCHANGED req
  /\ UNCHANGED <<users, blogs, comments, now>>

GetBlogBySlugSave(r) == BlogSave(r, "getBlogBySlug", "idle")

\* ------------------------------------------------------------- deleteUser
deleteBlogsOfUserPublished(bs, u) ==
  [b \in DOMAIN bs |->
     IF bs[b].author = u /\ bs[b].status = "published"
     THEN [bs[b] EXCEPT !.isDeleted = TRUE] ELSE bs[b]]

\* Blog.updateMany({ author: id }, { isDeleted: true })
deleteBlogsOfUser(bs, u) ==
  [b \in DOMAIN bs |-> IF bs[b].author = u THEN [bs[b] EXCEPT !.isDeleted = TRUE] ELSE bs[b]]

\* Comment.updateMany({ user: id }, { isDeleted: true })
deleteCommentsOfUser(cs, u) ==
  [c \in DOMAIN cs |-> IF cs[c].user = u THEN [cs[c] EXCEPT !.isDeleted = TRUE] ELSE cs[c]]

\* User.findById(id), after the guard against deleting one's own account
DeleteUserLoad(r, u, target) ==
  /\ IsIdle(r)
  /\ isAdmin(u)
  /\ IF target = u
     THEN /\ resp' = "OwnAccount"
          /\ UNCHANGED req
     ELSE /\ req' = Begin(r, "deleteUser", "blogs", u, target,
                          [NoDelta EXCEPT !.set = Assign(users[target], "isActive", FALSE)],
                          NoArg)
          /\ UNCHANGED resp
  /\ UNCHANGED <<users, blogs, comments, now>>

DeleteUserBlogs(r) ==
  /\ req[r].op = "deleteUser" /\ req[r].pc = "blogs"
  /\ blogs' = deleteBlogsOfUser(blogs, req[r].id)
  /\ req' = [req EXCEPT ![r].pc = "comments"]
  /\ UNCHANGED <<users, comments, resp, now>>

DeleteUserComments(r) ==
  /\ req[r].op = "deleteUser" /\ req[r].pc = "comments"
  /\ comments' = deleteCommentsOfUser(comments, req[r].id)
  /\ req' = [req EXCEPT ![r].pc = "save"]
  /\ UNCHANGED <<users, blogs, resp, now>>

\* user.isActive = false; user.save()
DeleteUserSave(r) ==
  /\ req[r].op = "deleteUser" /\ req[r].pc = "save"
  /\ users' = [users EXCEPT ![req[r].id] = applyDelta(users[req[r].id], req[r].delta)]
  /\ req' = [req EXCEPT ![r] = Idle]
  /\ resp' = "OK"
  /\ UNCHANGED <<blogs, comments, now>>

\* --------------------------------------------------------- request bodies
Texts == {"hi"}
Likers == {"ann", "bob"}

BlogBodies ==
  [title : Titles, content : Contents, tags : TagLists \cup {None}, status : Statuses]

UpdateBodies ==
  [title : Titles \cup {None}, content : Contents \cup {None}, tags : TagLists \cup {None}]

CommentBodies == [content : Texts, parent : 0..MaxComments]

\* the requests of the interleaved specifications
OneBlogBody == [title : {"t1"}, content : {"c1"}, tags : {None}, status : Statuses]
TitleUpdates == [title : Titles \cup {None}, content : {None}, tags : {None}]

\* --------------------------------------------- moderation, one at a time
ModSeqNext ==
  \/ \E u \in Users, body \in BlogBodies : CreateBlog(1, u, body)
  \/ \E u \in Users, b \in BlogIds : ApproveLoad(1, u, b)
  \/ ApproveSave(1)
  \/ \E u \in Users, b \in BlogIds, reason \in Reasons \cup {""} : RejectLoad(1, u, b, reason)
  \/ RejectSave(1)
  \/ \E u \in Users, b \in BlogIds, body \in UpdateBodies : UpdateLoad(1, u, b, body)
  \/ UpdateSave(1)

SpecModSeq == Init /\ [][ModSeqNext]_vars

\* ------------------------------------------------ moderation, interleaved
ModNext ==
  \/ \E r \in Slots, body \in OneBlogBody : CreateBlog(r, "ann", body)
  \/ \E r \in Slots, u \in Users, b \in BlogIds : ApproveLoad(r, u, b)
  \/ \E r \in Slots : ApproveSave(r)
  \/ \E r \in Slots, u \in Users, b \in BlogIds, reason \in Reasons \cup {""} :
        RejectLoad(r, u, b, reason)
  \/ \E r \in Slots : RejectSave(r)
  \/ \E r \in Slots, u \in Users, b \in BlogIds, body \in TitleUpdates :
        UpdateLoad(r, u, b, body)
  \/ \E r \in Slots : UpdateSave(r)

SpecMod == Init /\ [][ModNext]_vars

\* ----------------------------------------------------- likes, interleaved
LikesNext ==
  \/ \E r \in Slots, body \in OneBlogBody : CreateBlog(r, "ann", body)
  \/ \E r \in Slots, u \in Users, b \in BlogIds : ApproveLoad(r, u, b)
  \/ \E r \in Slots : ApproveSave(r)
  \/ \E r \in Slots, u \in Likers, b \in BlogIds : ToggleLikeLoad(r, u, b)
  \/ \E r \in Slots : ToggleLikeSave(r)

SpecLikes == Init /\ [][LikesNext]_vars

\* ------------------------------------------------ comments, one at a time
CommentsNext ==
  \/ \E body \in OneBlogBody : CreateBlog(1, "ann", body)
  \/ \E u \in Users, b \in BlogIds : ApproveLoad(1, u, b)
  \/ ApproveSave(1)
  \/ /\ Room(MaxComments)
     /\ \E u \in Users, b \in BlogIds, body \in CommentBodies : CreateCommentLoad(1, u, b, body)
  \/ CreateCommentParent(1)
  \/ CreateCommentCreate(1)
  \/ CreateCommentPush(1)
  \/ CreateCommentSave(1)
  \/ \E u \in Users, c \in CommentIds : DeleteCommentLoad(1, u, c)
  \/ DeleteCommentSave(1)
  \/ \E u \in Users, c \in CommentIds : DeleteCommentAdminLoad(1, u, c)
  \/ DeleteCommentAdminSave(1)
  \/ DeleteCommentCount(1)
  \/ \E u \in Users, b \in BlogIds : DeleteBlogAdminLoad(1, u, b)
  \/ DeleteBlogAdminSave(1)
  \/ DeleteBlogAdminCascade(1)
  \/ \E u \in Users, target \in Users : DeleteUserLoad(1, u, target)
  \/ DeleteUserBlogs(1)
  \/ DeleteUserComments(1)
  \/ DeleteUserSave(1)

SpecComments == Init /\ [][CommentsNext]_vars

\* ------------------------------- createComment, with failing database calls
CrashNext ==
  \/ \E body \in OneBlogBody : CreateBlog(1, "ann", body)
  \/ \E u \in Users, b \in BlogIds : ApproveLoad(1, u, b)
  \/ ApproveSave(1)
  \/ /\ Room(MaxComments)
     /\ \E u \in Users, b \in BlogIds, body \in CommentBodies : CreateCommentLoad(1, u, b, body)
  \/ CreateCommentParent(1)
  \/ CreateCommentCreate(1)
  \/ CreateCommentPush(1)
  \/ CreateCommentSave(1)
  \/ Abort(1)

SpecCrash == Init /\ [][CrashNext]_vars

\* ------------------------------------ comment threads, one request at a time
\* The blogs comments are made on: ann's published blog, and a blog of bob that
\* is pending, rejected, published, or published and then soft-deleted.
ThreadBody == [title |-> "t1", content |-> "c1", tags |-> None, status |-> "pending"]

publishedBlog(u, date) ==
  [createBlogDoc(u, ThreadBody) EXCEPT !.status = "published", !.publishedAt = date]

rejectedBlog(u) ==
  [createBlogDoc(u, ThreadBody) EXCEPT !.status = "rejected", !.publishedAt = Null,
                                       !.rejectionReason = "spam"]

SecondBlogs ==
  {createBlogDoc("bob", ThreadBody), rejectedBlog("bob"), publishedBlog("bob", 2),
   [publishedBlog("bob", 2) EXCEPT !.isDeleted = TRUE]}

ThreadInit ==
  /\ users = [u \in Users |->
                [role |-> IF u \in Admins THEN "admin" ELSE "user", isActive |-> TRUE]]
  /\ \E second \in SecondBlogs :
       /\ blogs = <<publishedBlog("ann", 1), second>>
       /\ now = IF second.status = "published" THEN 3 ELSE 2
  /\ comments = <<>>
  /\ req = [r \in Slots |-> Idle]
  /\ resp = "none"

ThreadBodies == [content : Texts, parent : 0..MaxThread]

ThreadNext ==
  \/ /\ Room(MaxThread)
     /\ \E u \in Likers, b \in 1..(Len(blogs) + 1), body \in ThreadBodies :
          CreateCommentLoad(1, u, b, body)
  \/ CreateCommentParent(1)
  \/ CreateCommentCreate(1)
  \/ CreateCommentPush(1)
  \/ CreateCommentSave(1)
  \/ \E u \in Likers, c \in 1..MaxThread : DeleteCommentLoad(1, u, c)
  \/ DeleteCommentSave(1)
  \/ DeleteCommentCount(1)

SpecThread == ThreadInit /\ [][ThreadNext]_vars

\* --- every operation on a blog, one at a time: moderation attempted by every
\* principal, the other operations by the principals who are not admin
TopLevelBodies == [content : Texts, parent : {0}]

RolesNext ==
  \/ \E u \in Likers, body \in OneBlogBody : CreateBlog(1, u, body)
  \/ \E u \in Users, b \in BlogIds : ApproveLoad(1, u, b)
  \/ ApproveSave(1)
  \/ \E u \in Users, b \in BlogIds : RejectLoad(1, u, b, "spam")
  \/ RejectSave(1)
  \/ \E u \in Likers, b \in BlogIds, body \in TitleUpdates : UpdateLoad(1, u, b, body)
  \/ UpdateSave(1)
  \/ \E u \in Likers, b \in BlogIds : DeleteBlogLoad(1, u, b)
  \/ DeleteBlogSave(1)
  \/ \E u \in Likers, b \in BlogIds : ToggleLikeLoad(1, u, b)
  \/ ToggleLikeSave(1)
  \/ /\ Room(MaxComments)
     /\ \E u \in Likers, b \in BlogIds, body \in TopLevelBodies : CreateCommentLoad(1, u, b, body)
  \/ CreateCommentCreate(1)
  \/ CreateCommentSave(1)
  \/ \E u \in Likers \cup {None}, b \in BlogIds : GetBlogBySlugLoad(1, u, b)
  \/ GetBlogBySlugSave(1)

SpecRoles == Init /\ [][RolesNext]_vars

\* ---------------------------------------------------------- updateComment
\* comment.content = content; comment.isEdited = true;
updateCommentDelta(doc, content) ==
  [NoDelta EXCEPT !.set = Assign(doc, "content", content) @@ Assign(doc, "isEdited", TRUE)]

\* the check of req.body.content, Comment.findById(commentId), the author check
UpdateCommentLoad(r, u, c, content) ==
  /\ IsIdle(r)
  /\ IF content = ""
     THEN /\ resp' = "ContentRequired"
          /\ UNCHANGED req
     ELSE IF c \notin DOMAIN comments
     THEN /\ resp' = "NotFound"
          /\ UNCHANGED req
     ELSE IF comments[c].user # u
     THEN /\ resp' = "Forbidden"
          /\ UNCHANGED req
     ELSE /\ req' = Begin(r, "updateComment", "save", u, c,
                          updateCommentDelta(comments[c], content), [content |-> content])
          /\ UNCHANGED resp
  /\ UNCHANGED <<users, blogs, comments, now>>

UpdateCommentSave(r) == CommentSave(r, "updateComment", "idle")

\* ------------------------------------------------------- toggleUserStatus
\* user.isActive = !user.isActive;
toggleUserStatusDelta(doc) ==
  [NoDelta EXCEPT !.set = Assign(doc, "isActive", ~doc.isActive)]

\* the guard against one's own account, and User.findById(id)
ToggleUserStatusLoad(r, u, target) ==
  /\ IsIdle(r)
  /\ isAdmin(u)
  /\ IF target = u
     THEN /\ resp' = "OwnAccount"
          /\ UNCHANGED req
     ELSE /\ req' = Begin(r, "toggleUserStatus", "save", u, target,
                          toggleUserStatusDelta(users[target]), NoArg)
          /\ UNCHANGED resp
  /\ UNCHANGED <<users, blogs, comments, now>>

ToggleUserStatusSaveRestores(r) ==
  /\ req[r].op = "toggleUserStatus" /\ req[r].pc = "save"
  /\ users' = [users EXCEPT ![req[r].id] = applyDelta(users[req[r].id], req[r].delta)]
  /\ blogs' = [b \in DOMAIN blogs |->
                 IF blogs[b].author = req[r].id /\ users'[req[r].id].isActive
                 THEN [blogs[b] EXCEPT !.isDeleted = FALSE] ELSE blogs[b]]
  /\ comments' = [c \in DOMAIN comments |->
                    IF comments[c].user = req[r].id /\ users'[req[r].id].isActive
                    THEN [comments[c] EXCEPT !.isDeleted = FALSE] ELSE comments[c]]
  /\ req' = [req EXCEPT ![r] = Idle]
  /\ resp' = "OK"
  /\ UNCHANGED now

\* user.save()
ToggleUserStatusSave(r) ==
  /\ req[r].op = "toggleUserStatus" /\ req[r].pc = "save"
  /\ users' = [users EXCEPT ![req[r].id] = applyDelta(users[req[r].id], req[r].delta)]
  /\ req' = [req EXCEPT ![r] = Idle]
  /\ resp' = "OK"
  /\ UNCHANGED <<blogs, comments, now>>

\* --------------- deletions and account administration, one request at a time
Edits == {"", "yo"}

AdminNext ==
  \/ \E u \in Likers, body \in OneBlogBody : CreateBlog(1, u, body)
  \/ \E b \in BlogIds : ApproveLoad(1, "root", b)
  \/ ApproveSave(1)
  \/ /\ Room(MaxComments)
     /\ \E u \in Likers, b \in BlogIds, body \in TopLevelBodies : CreateCommentLoad(1, u, b, body)
  \/ CreateCommentCreate(1)
  \/ CreateCommentSave(1)
  \/ \E u \in Likers, c \in CommentIds, content \in Edits : UpdateCommentLoad(1, u, c, content)
  \/ UpdateCommentSave(1)
  \/ \E u \in Likers, c \in CommentIds : DeleteCommentLoad(1, u, c)
  \/ DeleteCommentSave(1)
  \/ DeleteCommentCount(1)
  \/ \E u \in Likers, b \in BlogIds : DeleteBlogLoad(1, u, b)
  \/ DeleteBlogSave(1)
  \/ \E b \in BlogIds : DeleteBlogAdminLoad(1, "root", b)
  \/ DeleteBlogAdminSave(1)
  \/ DeleteBlogAdminCascade(1)
  \/ \E target \in Users : DeleteUserLoad(1, "root", target)
  \/ DeleteUserBlogs(1)
  \/ DeleteUserComments(1)
  \/ DeleteUserSave(1)
  \/ \E target \in Users : ToggleUserStatusLoad(1, "root", target)
  \/ ToggleUserStatusSave(1)

SpecAdmin == Init /\ [][AdminNext]_vars

\* ------------------------------------------------------------ getComments
\* .sort("-createdAt") or .sort("createdAt") of a set of comment ids: ids are
\* given in creation order, so newest first is largest first
RECURSIVE Sorted(_, _)
Sorted(S, sort) ==
  IF S = {} THEN <<>>
  ELSE LET first == IF sort = "-createdAt"
                    THEN CHOOSE c \in S : \A d \in S : d <= c
                    ELSE CHOOSE c \in S : \A d \in S : c <= d
       IN  <<first>> \o Sorted(S \ {first}, sort)

populateRepliesAll(c) ==
  SelectSeq(comments[c].replies, LAMBDA x : x \in DOMAIN comments)

\* .populate({ path: "replies", match: { isDeleted: false } }): the referenced
\* documents that match, in the order of the stored array
populateReplies(c) ==
  SelectSeq(comments[c].replies,
            LAMBDA x : x \in DOMAIN comments /\ ~comments[x].isDeleted)

\* Comment.find({ blog, parentComment: null, isDeleted: false })
topLevelOf(b) ==
  {c \in DOMAIN comments :
     comments[c].blog = b /\ comments[c].parentComment = 0 /\ ~comments[c].isDeleted}

\* .skip((page - 1) * limit).limit(limit)
Page(s, q) ==
  SubSeq(s, (q.page - 1) * q.limit + 1,
         IF q.page * q.limit < Len(s) THEN q.page * q.limit ELSE Len(s))

\* the documents the find of getComments resolves to
getCommentsFind(b, q) ==
  LET ids == Page(Sorted(topLevelOf(b), q.sort), q)
  IN  [i \in 1..Len(ids) |-> [id |-> ids[i], replies |-> populateReplies(ids[i])]]

\* Blog.findById(blogId); the route is public
GetCommentsLoad(r, b, q) ==
  /\ IsIdle(r)
  /\ IF b \notin DOMAIN blogs
     THEN /\ resp' = "NotFound"
          /\ UNCHANGED req
     ELSE /\ req' = Begin(r, "getComments", "find", None, b, NoDelta,
                          [query |-> q, comments |-> <<>>])
          /\ UNCHANGED resp
  /\ UNCHANGED <<users, blogs, comments, now>>

\* const comments = await Comment.find(..).populate(..).sort(..).skip(..).limit(..)
GetCommentsFind(r) ==
  /\ req[r].op = "getComments" /\ req[r].pc = "find"
  /\ req' = [req EXCEPT ![r].pc = "count",
                        ![r].arg.comments = getCommentsFind(req[r].id, req[r].arg.query)]
  /\ UNCHANGED <<users, blogs, comments, resp, now>>

\* Comment.countDocuments(..), and the answer that carries `comments`
GetCommentsCount(r) ==
  /\ req[r].op = "getComments" /\ req[r].pc = "count"
  /\ req' = [req EXCEPT ![r] = Idle]
  /\ resp' = "OK"
  /\ UNCHANGED <<users, blogs, comments, now>>

\* ----------------------- listing the threads of two published blogs
ListInit ==
  /\ users = [u \in Users |->
                [role |-> IF u \in Admins THEN "admin" ELSE "user", isActive |-> TRUE]]
  /\ blogs = <<publishedBlog("ann", 1), publishedBlog("bob", 2)>>
  /\ comments = <<>>
  /\ req = [r \in Slots |-> Idle]
  /\ resp = "none"
  /\ now = 3

\* req.query of getComments: the defaults, and pages of one comment
Queries ==
  {[page |-> 1, limit |-> 20, sort |-> "-createdAt"],
   [page |-> 1, limit |-> 20, sort |-> "createdAt"],
   [page |-> 2, limit |-> 1, sort |-> "-createdAt"]}

ListNext ==
  \/ /\ Room(MaxThread)
     /\ \E u \in Likers, b \in DOMAIN blogs, body \in ThreadBodies :
          CreateCommentLoad(1, u, b, body)
  \/ CreateCommentParent(1)
  \/ CreateCommentCreate(1)
  \/ CreateCommentPush(1)
  \/ CreateCommentSave(1)
  \/ \E u \in Likers, c \in 1..MaxThread : DeleteCommentLoad(1, u, c)
  \/ DeleteCommentSave(1)
  \/ DeleteCommentCount(1)
  \/ \E b \in 1..(Len(blogs) + 1), q \in Queries : GetCommentsLoad(1, b, q)
  \/ GetCommentsFind(1)
  \/ GetCommentsCount(1)

SpecList == ListInit /\ [][ListNext]_vars

\* ------------------------------- likes of blogs and comments, one at a time
ToggleNext ==
  \/ \E u \in Likers, b \in 1..(Len(blogs) + 1) : ToggleLikeLoad(1, u, b)
  \/ ToggleLikeSave(1)
  \/ /\ Room(MaxComments)
     /\ \E u \in Likers, b \in DOMAIN blogs, body \in TopLevelBodies :
          CreateCommentLoad(1, u, b, body)
  \/ CreateCommentCreate(1)
  \/ CreateCommentSave(1)
  \/ \E u \in Likers, c \in CommentIds : ToggleCommentLikeLoad(1, u, c)
  \/ ToggleCommentLikeSave(1)

SpecToggle == ThreadInit /\ [][ToggleNext]_vars

\* ------------- deleteBlogAdmin and createComment on published blogs, interleaved
CascadeNext ==
  \/ /\ Room(MaxComments)
     /\ \E r \in Slots, u \in Likers, b \in DOMAIN blogs, body \in TopLevelBodies :
          CreateCommentLoad(r, u, b, body)
  \/ \E r \in Slots : CreateCommentCreate(r)
  \/ \E r \in Slots : CreateCommentSave(r)
  \/ \E r \in Slots, b \in DOMAIN blogs : DeleteBlogAdminLoad(r, "root", b)
  \/ \E r \in Slots : DeleteBlogAdminSave(r)
  \/ \E r \in Slots : DeleteBlogAdminCascade(r)

SpecCascade == ListInit /\ [][CascadeNext]_vars

\* ---------- reads of ann's published blog, interleaved with likes and edits of it
ViewsNext ==
  \/ \E r \in Slots, u \in {"bob", None}, b \in {1, Len(blogs) + 1} :
        GetBlogBySlugLoad(r, u, b)
  \/ \E r \in Slots : GetBlogBySlugSave(r)
  \/ \E r \in Slots : ToggleLikeLoad(r, "bob", 1)
  \/ \E r \in Slots : ToggleLikeSave(r)
  \/ \E r \in Slots, body \in TitleUpdates : UpdateLoad(r, "ann", 1, body)
  \/ \E r \in Slots : UpdateSave(r)

SpecViews == ListInit /\ [][ViewsNext]_vars

\* ----------- createComment and deleteComment on ann's published blog, interleaved
RaceNext ==
  \/ /\ Room(MaxComments)
     /\ \E r \in Slots, u \in Likers, body \in TopLevelBodies : CreateCommentLoad(r, u, 1, body)
  \/ \E r \in Slots : CreateCommentCreate(r)
  \/ \E r \in Slots : CreateCommentSave(r)
  \/ \E r \in Slots, u \in Likers, c \in CommentIds : DeleteCommentLoad(r, u, c)
  \/ \E r \in Slots : DeleteCommentSave(r)
  \/ \E r \in Slots : DeleteCommentCount(r)

SpecRace == ListInit /\ [][RaceNext]_vars

\* --------------------------------------------------------- updateUserRole
\* user.role = role;
updateUserRoleDelta(doc, role) == [NoDelta EXCEPT !.set = Assign(doc, "role", role)]

\* the check of req.body.role, the guard against one's own account, User.findById(id)
UpdateUserRoleLoad(r, u, target, role) ==
  /\ IsIdle(r)
  /\ isAdmin(u)
  /\ IF role \notin {"user", "admin"}
     THEN /\ resp' = "InvalidRole"
          /\ UNCHANGED req
     ELSE IF target = u
     THEN /\ resp' = "OwnAccount"
          /\ UNCHANGED req
     ELSE /\ req' = Begin(r, "updateUserRole", "save", u, target,
                          updateUserRoleDelta(users[target], role), [role |-> role])
          /\ UNCHANGED resp
  /\ UNCHANGED <<users, blogs, comments, now>>

\* user.save()
UpdateUserRoleSave(r) ==
  /\ req[r].op = "updateUserRole" /\ req[r].pc = "save"
  /\ users' = [users EXCEPT ![req[r].id] = applyDelta(users[req[r].id], req[r].delta)]
  /\ req' = [req EXCEPT ![r] = Idle]
  /\ resp' = "OK"
  /\ UNCHANGED <<blogs, comments, now>>

\* ------------------------------------- account administration, interleaved
\* protect: the caller's token resolves to a principal that is active
protect(u) == users[u].isActive

Roles == {"user", "admin", "guest"}

UsersNext ==
  \/ \E r \in Slots, u \in Users, target \in Users :
        protect(u) /\ ToggleUserStatusLoad(r, u, target)
  \/ \E r \in Slots : ToggleUserStatusSave(r)
  \/ \E r \in Slots, u \in Users, target \in Users, role \in Roles :
        protect(u) /\ UpdateUserRoleLoad(r, u, target, role)
  \/ \E r \in Slots : UpdateUserRoleSave(r)
  \/ \E r \in Slots, u \in Users, target \in Users :
        protect(u) /\ DeleteUserLoad(r, u, target)
  \/ \E r \in Slots : DeleteUserBlogs(r)
  \/ \E r \in Slots : DeleteUserComments(r)
  \/ \E r \in Slots : DeleteUserSave(r)

SpecUsers == Init /\ [][UsersNext]_vars
\* ================================================================ claims
Range(f) == {f[i] : i \in DOMAIN f}

\* the comments of blog b that are not soft-deleted
LiveComments(b) ==
  Cardinality({c \in DOMAIN comments : comments[c].blog = b /\ ~comments[c].isDeleted})

\* slot r's request of kind op applies its save and answers in this step
Saved(r, op) == req[r].op = op /\ req[r].pc = "save" /\ req'[r].pc = "idle"

\* C1: for every blog and every comment, likesCount equals the number of
\* entries of likes, in every reachable state, overlapping toggleLike calls
\* included.
C1_LikesCountIsCardinality ==
  /\ \A b \in DOMAIN blogs : blogs[b].likesCount = Len(blogs[b].likes)
  /\ \A c \in DOMAIN comments : comments[c].likesCount = Len(comments[c].likes)

\* C2: whenever no request is in progress, every blog's commentsCount equals
\* the number of its comments that are not soft-deleted.
C2_CommentsCountIsLiveCount ==
  Quiet => \A b \in DOMAIN blogs : blogs[b].commentsCount = LiveComments(b)

\* C3: for every blog, publishedAt is a date if and only if status is
\* published, under any interleaving of createPost, approvePost, rejectPost and
\* editPost.
C3_PublishedAtIffPublished ==
  \A b \in DOMAIN blogs : (blogs[b].publishedAt >= 1) <=> (blogs[b].status = "published")

\* C4: for every blog, rejectionReason is non-empty only if status is rejected,
\* under any interleaving of approvePost, rejectPost and editPost.
C4_ReasonOnlyIfRejected ==
  \A b \in DOMAIN blogs : blogs[b].rejectionReason # "" => blogs[b].status = "rejected"

\* slot r saves a like (a push of its principal) that it prepared before another
\* request's write to the same blog's likes was stored
OverlappingLikeSaved(r) ==
  /\ Saved(r, "toggleLike") /\ req[r].arg.isLiked /\ resp' = "Liked"
  /\ req[r].stale
  /\ req[r].user \notin Range(blogs[req[r].id].likes)

\* C5 (as claimed): when a like is saved after an overlapping toggle's write, the
\* second write overwrites the first: the stored likes become the array the
\* second request held (what it read plus its own principal), so that what the
\* first request stored is lost.
C5_SecondWriteOverwrites ==
  [][\A r \in Slots :
       (OverlappingLikeSaved(r) /\ "likesCount" \in DOMAIN req[r].delta.set)
       => Len(blogs'[req[r].id].likes) = req[r].delta.set["likesCount"]]_vars

\* C5 (amended): a saved like appends the principal to whatever is stored, so
\* both principals of two overlapping toggleLike calls end up in likes; what the
\* second write overwrites is likesCount, set to the length of the array the
\* request held.
C5_LikeAppendsCountOverwrites ==
  [][\A r \in Slots :
       (Saved(r, "toggleLike") /\ req[r].arg.isLiked /\ resp' = "Liked")
       => /\ blogs'[req[r].id].likes = Append(blogs[req[r].id].likes, req[r].user)
          /\ "likesCount" \in DOMAIN req[r].delta.set
               => blogs'[req[r].id].likesCount = req[r].delta.set["likesCount"]]_vars

\* two overlapping likes of ann and bob were both stored, and the counter says 1
C5_BothLikesStoredCountOne ==
  /\ Quiet
  /\ \E b \in DOMAIN blogs :
       /\ Range(blogs[b].likes) = {"ann", "bob"}
       /\ Len(blogs[b].likes) = 2
       /\ blogs[b].likesCount = 1

\* C6: when a createComment request has stopped, no blog's commentsCount is
\* less than the number of its comments that are not soft-deleted.
C6_CounterNeverShort ==
  Quiet => \A b \in DOMAIN blogs : blogs[b].commentsCount >= LiveComments(b)

\* C7: every blog that createPost stores has status pending, whatever the
\* request holds, with publishedAt unset, rejectionReason empty, likes empty,
\* likesCount 0, commentsCount 0, views 0 and isDeleted false.
C7_CreatedPending ==
  [][Len(blogs') > Len(blogs)
     => LET d == blogs'[Len(blogs')]
        IN  /\ d.status = "pending"
            /\ d.publishedAt = Absent
            /\ d.rejectionReason = ""
            /\ d.likes = <<>>
            /\ d.likesCount = 0
            /\ d.commentsCount = 0
            /\ d.views = 0
            /\ d.isDeleted = FALSE]_vars

C7_Created == resp = "Created" /\ Len(blogs) = 1 /\ blogs[1].status = "pending"

\* C8: approvePost on a blog whose status is pending or rejected succeeds and
\* leaves it published, with a date in publishedAt and an empty
\* rejectionReason.
C8_ApprovePublishes ==
  [][\A r \in Slots :
       (req[r].op = "approveBlog" /\ req[r].pc = "save" /\ req' # req)
       => /\ blogs[req[r].id].status \in {"pending", "rejected"}
          /\ resp' = "OK"
          /\ req'[r].pc = "idle"
          /\ blogs'[req[r].id].status = "published"
          /\ blogs'[req[r].id].publishedAt >= 1
          /\ blogs'[req[r].id].rejectionReason = ""]_vars

\* a rejected blog, with its reason, is being approved
C8_ApprovingRejected ==
  \E r \in Slots :
    /\ req[r].op = "approveBlog" /\ req[r].pc = "save"
    /\ blogs[req[r].id].status = "rejected"
    /\ blogs[req[r].id].rejectionReason # ""

\* C9: approvePost on a blog that is already published answers
\* AlreadyPublished and changes nothing: status, publishedAt and
\* rejectionReason keep their values and no save is started.
C9_ApprovePublishedFails ==
  [][\A r \in Slots, u \in Users, b \in DOMAIN blogs :
       (blogs[b].status = "published" /\ ApproveLoad(r, u, b))
       => /\ resp' = "AlreadyPublished"
          /\ blogs' = blogs
          /\ req' = req]_vars

C9_AlreadyPublished ==
  /\ resp = "AlreadyPublished"
  /\ \E b \in DOMAIN blogs : blogs[b].status = "published" /\ blogs[b].publishedAt >= 1

\* C10: rejectPost with a non-empty reason leaves a blog of any status
\* rejected, with rejectionReason the given reason and publishedAt null.
C10_RejectRejects ==
  [][\A r \in Slots :
       (req[r].op = "rejectBlog" /\ req[r].pc = "save" /\ req' # req)
       => /\ resp' = "OK"
          /\ req'[r].pc = "idle"
          /\ req[r].arg.reason # ""
          /\ blogs'[req[r].id].status = "rejected"
          /\ blogs'[req[r].id].rejectionReason = req[r].arg.reason
          /\ blogs'[req[r].id].publishedAt = Null]_vars

\* a published blog is being rejected
C10_RejectingPublished ==
  \E r \in Slots :
    /\ req[r].op = "rejectBlog" /\ req[r].pc = "save"
    /\ blogs[req[r].id].status = "published"
    /\ blogs[req[r].id].publishedAt >= 1

\* C11: editPost by the author on a published blog demotes it to pending with
\* publishedAt null exactly when the edit supplies a title or a content; an
\* edit that supplies tags only (or nothing) leaves it published with the same
\* publishedAt.
C11_EditDemotesIffTitleOrBody ==
  [][\A r \in Slots :
       (/\ req[r].op = "updateBlog" /\ req[r].pc = "save" /\ req' # req
        /\ blogs[req[r].id].status = "published")
       => /\ resp' = "OK"
          /\ IF req[r].arg.title # None \/ req[r].arg.content # None
             THEN /\ blogs'[req[r].id].status = "pending"
                  /\ blogs'[req[r].id].publishedAt = Null
             ELSE /\ blogs'[req[r].id].status = "published"
                  /\ blogs'[req[r].id].publishedAt = blogs[req[r].id].publishedAt]_vars

\* an edit of its tags only is being saved on a published blog
C11_TagsOnlyEdit ==
  \E r \in Slots :
    /\ req[r].op = "updateBlog" /\ req[r].pc = "save"
    /\ blogs[req[r].id].status = "published"
    /\ req[r].arg.title = None /\ req[r].arg.content = None /\ req[r].arg.tags # None
    /\ req[r].arg.tags # blogs[req[r].id].tags

\* C12: a blog's status becomes published only by the save of an approveBlog
\* request made by a principal whose role is admin, and rejected only by the
\* save of such a rejectBlog request; a blog that is created is pending.  No
\* step of createBlog, updateBlog, deleteBlog, toggleLike, createComment or
\* getBlogBySlug makes a status published or rejected.
C12_OnlyAdminPublishes ==
  [][/\ \A b \in DOMAIN blogs' \ DOMAIN blogs : blogs'[b].status = "pending"
     /\ \A b \in DOMAIN blogs :
          (blogs'[b].status # blogs[b].status
             /\ blogs'[b].status \in {"published", "rejected"})
          => \E r \in Slots :
               /\ req[r].pc = "save" /\ req[r].id = b
               /\ users[req[r].user].role = "admin"
               /\ req[r].op = IF blogs'[b].status = "published"
                              THEN "approveBlog" ELSE "rejectBlog"
               /\ req'[r].pc = "idle"]_vars

\* a published blog that readers who are not admin have liked, read and commented
C12_PublishedAndUsed ==
  \E b \in DOMAIN blogs :
    /\ blogs[b].status = "published"
    /\ blogs[b].likes # <<>> /\ blogs[b].views > 0 /\ blogs[b].commentsCount > 0

\* a step of the createComment request in slot r
CreateCommentStep(r) == req[r].op = "createComment" /\ req' # req

\* C13: createComment on a stored blog whose status is not published (pending
\* or rejected) answers NotPublished, stores no comment, leaves commentsCount
\* and every replies list as they were, and starts nothing.
C13_UnpublishedRefusesComments ==
  [][\A r \in Slots, u \in Users, b \in DOMAIN blogs, body \in ThreadBodies :
       (blogs[b].status # "published" /\ CreateCommentLoad(r, u, b, body))
       => /\ resp' = "NotPublished"
          /\ comments' = comments
          /\ blogs' = blogs
          /\ req' = req]_vars

\* createComment on a blog that is pending or rejected was refused
C13_Refused ==
  /\ resp = "NotPublished"
  /\ \E b \in DOMAIN blogs : blogs[b].status \in {"pending", "rejected"} /\ ~blogs[b].isDeleted

\* C14: createComment on a soft-deleted blog answers NotFound, even when the
\* blog is published: no request is started, so no comment is stored and
\* commentsCount does not change.
C14_DeletedPostRefusesComments ==
  [][\A r \in Slots, u \in Users, b \in DOMAIN blogs, body \in ThreadBodies :
       (blogs[b].isDeleted /\ CreateCommentLoad(r, u, b, body))
       => /\ resp' = "NotFound"
          /\ comments' = comments
          /\ blogs' = blogs
          /\ req' = req]_vars

\* C15: a createComment request that succeeds (top-level or reply) stores
\* exactly one new comment, not deleted and referencing the blog, and adds
\* exactly 1 to that blog's commentsCount; no other blog changes.
C15_OneCommentOneCount ==
  [][\A r \in Slots :
       CreateCommentStep(r)
       => LET b == req[r].id
          IN  /\ req[r].pc = "create"
                 => /\ Len(comments') = Len(comments) + 1
                    /\ comments'[Len(comments')].blog = b
                    /\ ~comments'[Len(comments')].isDeleted
                    /\ blogs' = blogs
              /\ req[r].pc # "create" => Len(comments') = Len(comments)
              /\ req[r].pc = "save"
                 => /\ resp' = "Created"
                    /\ blogs'[b].commentsCount = blogs[b].commentsCount + 1
                    /\ \A o \in DOMAIN blogs : o # b => blogs'[o] = blogs[o]
              /\ req[r].pc \notin {"create", "save"} => blogs' = blogs]_vars

\* comments and a reply were created on both blogs
C15_BothBlogsCommented ==
  /\ Quiet /\ resp = "Created"
  /\ Len(blogs) = 2 /\ blogs[1].commentsCount = 2 /\ blogs[2].commentsCount = 1
  /\ LiveComments(1) = 2 /\ LiveComments(2) = 1
  /\ \E c \in DOMAIN comments : comments[c].parentComment # 0

\* C16: createComment with a parent that names no stored comment answers
\* ParentNotFound, stores no comment and leaves commentsCount as it was; with
\* a parent that is stored, soft-deleted or not, it goes on to create the reply.
C16_ParentMustExist ==
  [][\A r \in Slots :
       (CreateCommentStep(r) /\ req[r].pc = "parent")
       => IF req[r].arg.parent \in DOMAIN comments
          THEN req'[r].pc = "create" /\ req'[r].op = "createComment"
          ELSE /\ resp' = "ParentNotFound"
               /\ req'[r].pc = "idle"
               /\ comments' = comments
               /\ blogs' = blogs]_vars

\* a reply to a soft-deleted comment was created
C16_RepliedToDeleted ==
  \E r \in Slots :
    /\ req[r].op = "createComment" /\ req[r].pc \in {"push", "save"}
    /\ req[r].arg.parent \in DOMAIN comments
    /\ comments[req[r].arg.parent].isDeleted
    /\ comments[req[r].arg.cid].parentComment = req[r].arg.parent

\* C17: a reply's createComment stores the new comment with parentComment the
\* named parent, and appends the new comment's id once at the end of that
\* parent's replies, whose earlier entries keep their order; a top-level
\* createComment stores parentComment null and changes no replies list.
C17_ReplyAppended ==
  [][\A r \in Slots :
       CreateCommentStep(r)
       => LET parent == req[r].arg.parent
          IN  /\ req[r].pc = "create"
                 => /\ comments'[Len(comments')].parentComment = parent
                    /\ comments'[Len(comments')].replies = <<>>
                    /\ \A c \in DOMAIN comments : comments'[c] = comments[c]
              /\ req[r].pc = "push"
                 => /\ parent # 0
                    /\ req[r].arg.cid \notin Range(comments[parent].replies)
                    /\ comments'[parent].replies
                         = Append(comments[parent].replies, req[r].arg.cid)
                    /\ \A c \in DOMAIN comments : c # parent => comments'[c] = comments[c]
              /\ req[r].pc \notin {"create", "push"} => comments' = comments
              /\ req'[r].pc = "push" => parent # 0
              /\ (req[r].pc = "create" /\ parent # 0) => req'[r].pc = "push"]_vars

\* a comment has two replies, in the order they were made
C17_TwoReplies ==
  /\ Quiet /\ resp = "Created"
  /\ \E c \in DOMAIN comments :
       /\ Len(comments[c].replies) = 2
       /\ comments[c].replies[1] < comments[c].replies[2]
       /\ \A i \in 1..2 : comments[comments[c].replies[i]].parentComment = c

\* C18: the thread is two-tier: every comment whose replies list is not empty
\* is a top-level comment (parentComment null).
C18_TwoTier ==
  \A c \in DOMAIN comments : comments[c].replies # <<>> => comments[c].parentComment = 0

\* a step of the deleteComment or deleteCommentAdmin request in slot r
DeleteCommentStep(r) ==
  req[r].op \in {"deleteComment", "deleteCommentAdmin"} /\ req' # req

\* C19: deleteComment by the comment's author, or deleteCommentAdmin by an
\* admin, on a comment that is not deleted sets isDeleted, replaces the content
\* with the placeholder and then takes exactly 1 from the commentsCount of the
\* comment's blog; deleteComment by anyone but the author answers Forbidden
\* and changes nothing.
C19_DeleteMarksAndDecrements ==
  [][/\ \A r \in Slots, u \in Users, c \in DOMAIN comments :
          DeleteCommentLoad(r, u, c)
          => IF comments[c].user = u
             THEN req'[r].op = "deleteComment" /\ req'[r].pc = "save"
             ELSE /\ resp' = "Forbidden"
                  /\ UNCHANGED <<blogs, comments, req>>
     /\ \A r \in Slots :
          DeleteCommentStep(r)
          => /\ users[req[r].user].role = "admin" \/ comments[req[r].id].user = req[r].user
             /\ (req[r].pc = "save" /\ ~comments[req[r].id].isDeleted)
                => /\ comments'[req[r].id].isDeleted
                   /\ comments'[req[r].id].content
                        = IF req[r].op = "deleteComment" THEN "[deleted]"
                                                         ELSE "[deleted by admin]"
                   /\ blogs' = blogs
                   /\ req'[r].pc = "count"
             /\ req[r].pc = "count"
                => /\ resp' = "OK"
                   /\ comments' = comments
                   /\ \A b \in DOMAIN blogs :
                        blogs'[b] = IF b = req[r].arg.blog
                                    THEN [blogs[b] EXCEPT !.commentsCount = @ - 1]
                                    ELSE blogs[b]]_vars

\* the only comment of a blog was deleted by its author and the count is back to 0
C19_AuthorDeleted ==
  /\ Quiet /\ resp = "OK"
  /\ Len(comments) = 1
  /\ comments[1].isDeleted /\ comments[1].content = "[deleted]"
  /\ blogs[comments[1].blog].commentsCount = 0

\* C20: deleteComment and deleteCommentAdmin never unlink: no step of theirs
\* changes any replies list or any parentComment, so the deleted comment stays
\* in its parent's replies at the same position and keeps its own replies.
C20_DeleteKeepsLinks ==
  [][\A r \in Slots :
       DeleteCommentStep(r)
       => \A c \in DOMAIN comments :
            /\ comments'[c].replies = comments[c].replies
            /\ comments'[c].parentComment = comments[c].parentComment]_vars

\* a reply that is not deleted is nested under a comment its author deleted
C20_ReplyUnderTombstone ==
  \E c, d \in DOMAIN comments :
    /\ comments[c].isDeleted /\ comments[c].content = "[deleted]"
    /\ comments[c].replies = <<d>>
    /\ comments[d].parentComment = c /\ ~comments[d].isDeleted

\* ids of the comments that are soft-deleted
DeletedComments == {c \in DOMAIN comments : comments[c].isDeleted}

\* the two texts the delete handlers write over a comment's content
Placeholders == {"[deleted]", "[deleted by admin]"}

\* C21: in every reachable state, every comment with isDeleted true carries a
\* deletion placeholder as its content, never text written by a user.
C21_DeletedCommentHasPlaceholder ==
  \A c \in DeletedComments : comments[c].content \in Placeholders

\* the find of a getComments request resolves in this step
GetCommentsStep(r) ==
  req[r].op = "getComments" /\ req[r].pc = "find" /\ req'[r].pc = "count"

\* s lists exactly the members of stored that are not soft-deleted, in the order of stored
LiveInOrder(s, stored) ==
  /\ Range(s) = {x \in Range(stored) : ~comments[x].isDeleted}
  /\ \A j, k \in 1..Len(s) : j < k => IndexOf(stored, s[j]) < IndexOf(stored, s[k])

\* C22: getComments for a blog returns only comments of that blog that are
\* top-level and not soft-deleted, none twice, and all of them when the page
\* holds them all; each carries exactly the entries of its replies list that
\* are not soft-deleted, in the order they were appended.
C22_ListTopLevelLive ==
  [][GetCommentsStep(1) =>
       LET out == req'[1].arg.comments
           b   == req[1].id
           q   == req[1].arg.query
           all == {c \in DOMAIN comments : /\ comments[c].blog = b
                                           /\ comments[c].parentComment = 0
                                           /\ ~comments[c].isDeleted}
       IN  /\ \A i \in 1..Len(out) :
                /\ out[i].id \in all
                /\ LiveInOrder(out[i].replies, comments[out[i].id].replies)
           /\ \A i, j \in 1..Len(out) : i # j => out[i].id # out[j].id
           /\ (q.page = 1 /\ q.limit >= Cardinality(all))
                => {out[i].id : i \in 1..Len(out)} = all]_vars

\* a listing that attaches the live second reply of a comment whose first reply
\* is soft-deleted
C22_ListedWithoutTombstone ==
  /\ req[1].op = "getComments" /\ req[1].pc = "count"
  /\ \E i \in 1..Len(req[1].arg.comments) :
       LET e == req[1].arg.comments[i]
       IN  /\ Len(comments[e.id].replies) = 2
           /\ comments[comments[e.id].replies[1]].isDeleted
           /\ e.replies = <<comments[e.id].replies[2]>>

\* what a toggle by u has to make of the document `old`: u joins or leaves
\* likes, likesCount moves by one, the answer says which, and one more toggle
\* by u gives back the likes and the likesCount of `old`
Toggled(old, new, u, answer) ==
  /\ IF u \in Range(old.likes)
     THEN /\ Range(new.likes) = Range(old.likes) \ {u}
          /\ new.likesCount = old.likesCount - 1
          /\ answer = "Unliked"
     ELSE /\ Range(new.likes) = Range(old.likes) \cup {u}
          /\ new.likesCount = old.likesCount + 1
          /\ answer = "Liked"
  /\ LET back == applyDelta(new, toggleLikeDelta(new, u))
     IN  /\ Range(back.likes) = Range(old.likes)
         /\ back.likesCount = old.likesCount

\* C23: toggleLike on a blog or on a comment adds the caller to likes when
\* absent (isLiked true) and removes the caller when present (isLiked false);
\* a second toggle by the same caller right after restores the members of
\* likes and likesCount.
C23_ToggleAddsOrRemoves ==
  [][/\ Saved(1, "toggleLike") /\ resp' # "ServerError"
          => Toggled(blogs[req[1].id], blogs'[req[1].id], req[1].user, resp')
     /\ Saved(1, "toggleCommentLike") /\ resp' # "ServerError"
          => Toggled(comments[req[1].id], comments'[req[1].id], req[1].user, resp')]_vars

\* ann has just taken her like back from a blog that bob still likes, and a
\* comment is liked by bob alone
C23_UnlikedBesideOther ==
  /\ resp = "Unliked" /\ Quiet
  /\ blogs[1].likes = <<"bob">> /\ blogs[1].likesCount = 1
  /\ \E c \in DOMAIN comments : comments[c].likes = <<"bob">> /\ comments[c].likesCount = 1

\* blog b takes likes according to the specification: published and not soft-deleted
AcceptsLikes(b) == blogs[b].status = "published" /\ ~blogs[b].isDeleted

\* C24: toggleLike on a blog that is pending, rejected or soft-deleted is
\* refused at once, and no step changes the likes or the likesCount of such a
\* blog.
C24_LikesOnlyOnLivePublished ==
  [][\A b \in DOMAIN blogs :
       ~AcceptsLikes(b) =>
          /\ blogs'[b].likes = blogs[b].likes
          /\ blogs'[b].likesCount = blogs[b].likesCount
          /\ ~(IsIdle(1) /\ req'[1].op = "toggleLike" /\ req'[1].id = b)]_vars

\* C25: updateBlog, the edit that demotes a published blog to pending included,
\* leaves the blog's likes, likesCount, commentsCount and views as they were.
C25_EditKeepsLikesAndCounters ==
  [][Saved(1, "updateBlog") =>
       LET old == blogs[req[1].id]
           new == blogs'[req[1].id]
       IN  /\ new.likes = old.likes
           /\ new.likesCount = old.likesCount
           /\ new.commentsCount = old.commentsCount
           /\ new.views = old.views]_vars

\* ann's blog was demoted by her edit of the title and still carries bob's
\* like, a comment and a view
C25_DemotedWithLike ==
  /\ resp = "OK" /\ Quiet
  /\ \E b \in DOMAIN blogs :
       /\ blogs[b].author = "ann" /\ blogs[b].title = "t2"
       /\ blogs[b].status = "pending" /\ blogs[b].publishedAt = Null
       /\ blogs[b].likes = <<"bob">> /\ blogs[b].likesCount = 1
       /\ blogs[b].commentsCount = 1 /\ blogs[b].views = 1

\* C26: deleteBlog by the author sets isDeleted to true and leaves status,
\* publishedAt, rejectionReason, likes, the counters and every other path of
\* the blog as they were, and it changes no comment.
C26_AuthorDeleteOnlyMarks ==
  [][Saved(1, "deleteBlog") =>
       /\ blogs[req[1].id].author = req[1].user
       /\ blogs'[req[1].id] = [blogs[req[1].id] EXCEPT !.isDeleted = TRUE]
       /\ comments' = comments]_vars

\* the author deleted a blog that was commented on and then rejected: the
\* rejection stays on record and the comment is still live
C26_RejectedDeletedCommentLive ==
  /\ resp = "OK" /\ Quiet
  /\ \E b \in DOMAIN blogs :
       /\ blogs[b].isDeleted /\ blogs[b].status = "rejected"
       /\ blogs[b].rejectionReason = "spam" /\ blogs[b].commentsCount = 1
       /\ \E c \in DOMAIN comments : comments[c].blog = b /\ ~comments[c].isDeleted

\* a deleteBlogAdmin on blog b has not answered yet
AdminDeleting(b) ==
  \E r \in Slots : req[r].op = "deleteBlogAdmin" /\ req[r].id = b

\* C27: once a deleteBlogAdmin on a blog has completed (the blog is
\* soft-deleted, which only deleteBlogAdmin does here, and no deleteBlogAdmin on
\* it is still running), every comment that references the blog has isDeleted
\* true, whatever createComment calls overlap it.
C27_AdminDeletedBlogHasNoLiveComment ==
  \A b \in DOMAIN blogs :
    (blogs[b].isDeleted /\ ~AdminDeleting(b)) =>
       \A c \in DOMAIN comments : comments[c].blog = b => comments[c].isDeleted

\* C28: when deleteUser on a principal completes, the principal is still
\* stored, now inactive and otherwise unchanged, and every blog and every
\* comment the principal authored is soft-deleted.
C28_DeleteUserDeactivatesAndCascades ==
  [][Saved(1, "deleteUser") =>
       LET t == req[1].id
       IN  /\ t \in DOMAIN users'
           /\ users'[t] = [users[t] EXCEPT !.isActive = FALSE]
           /\ \A b \in DOMAIN blogs' : blogs'[b].author = t => blogs'[b].isDeleted
           /\ \A c \in DOMAIN comments' : comments'[c].user = t => comments'[c].isDeleted]_vars

\* deleteUser on ann has completed: her published blog is soft-deleted, bob's
\* comment on it is not, and ann is inactive
C28_AnnDeactivated ==
  /\ resp = "OK" /\ Quiet
  /\ ~users["ann"].isActive /\ users["ann"].role = "user"
  /\ \E b \in DOMAIN blogs :
       /\ blogs[b].author = "ann" /\ blogs[b].isDeleted /\ blogs[b].status = "published"
       /\ \E c, d \in DOMAIN comments :
            /\ comments[c].blog = b /\ comments[c].user = "bob" /\ ~comments[c].isDeleted
            /\ comments[d].user = "ann" /\ comments[d].isDeleted /\ comments[d].content = "hi"

\* C29: whenever a step deactivates a principal, by toggleUserStatus as well
\* as by deleteUser, every blog and every comment the principal authored is
\* soft-deleted after it.
C29_DeactivationCascades ==
  [][\A u \in Users :
       (users[u].isActive /\ ~users'[u].isActive) =>
          /\ \A b \in DOMAIN blogs' : blogs'[b].author = u => blogs'[b].isDeleted
          /\ \A c \in DOMAIN comments' : comments'[c].user = u => comments'[c].isDeleted]_vars

\* C30: soft deletion is one-way: a blog or a comment whose isDeleted is true
\* has isDeleted true after every step, the step that re-activates its author
\* through toggleUserStatus included.
C30_DeletedStaysDeleted ==
  [][/\ \A b \in DOMAIN blogs : blogs[b].isDeleted => blogs'[b].isDeleted
     /\ \A c \in DOMAIN comments : comments[c].isDeleted => comments'[c].isDeleted]_vars

\* ann was removed by deleteUser and re-activated afterwards: her blog and her
\* comment are still soft-deleted, beside bob's live comment
C30_ReactivatedStillDeleted ==
  /\ resp = "OK" /\ Quiet
  /\ users["ann"].isActive
  /\ \E b \in DOMAIN blogs :
       /\ blogs[b].author = "ann" /\ blogs[b].isDeleted
       /\ \E c, d \in DOMAIN comments :
            /\ comments[c].blog = b /\ comments[c].user = "bob" /\ ~comments[c].isDeleted
            /\ comments[d].user = "ann" /\ comments[d].isDeleted /\ comments[d].content = "hi"

\* C31: getBlogBySlug on a blog that is not soft-deleted adds exactly 1 to
\* views for a reader who is not logged in or is not the author, and leaves
\* views alone for the author; on a soft-deleted blog it answers NotFound at
\* once.  No step but the save of a getBlogBySlug changes views.
C31_ViewCountedUnlessAuthor ==
  [][/\ (IsIdle(1) /\ req'[1].op = "getBlogBySlug") =>
          /\ ~blogs[req'[1].id].isDeleted
          /\ req'[1].user # blogs[req'[1].id].author
     /\ Saved(1, "getBlogBySlug") =>
          blogs'[req[1].id] = [blogs[req[1].id] EXCEPT !.views = @ + 1]
     /\ \A b \in DOMAIN blogs :
          blogs'[b].views # blogs[b].views => Saved(1, "getBlogBySlug") /\ req[1].id = b]_vars

\* bob's blog, still pending, was read once by a reader other than bob
C31_ReadOnce ==
  /\ resp = "OK" /\ Quiet
  /\ \E b \in DOMAIN blogs :
       /\ blogs[b].author = "bob" /\ blogs[b].views = 1
       /\ blogs[b].status = "pending" /\ blogs[b].likes = <<>> /\ blogs[b].title = "t1"

\* C32: views is monotonic: no step of any interleaving of getBlogBySlug calls
\* with each other and with likes and edits of the same blog lowers the views
\* of a blog.
C32_ViewsNeverDecrease ==
  [][\A b \in DOMAIN blogs : blogs'[b].views >= blogs[b].views]_vars

\* C33: getBlogBySlug serves a blog that is pending or rejected only to its
\* author or to an admin: for any other caller, logged in or not, the handler
\* takes no such request up and the views of such a blog stay as they are.
C33_UnpublishedOnlyForAuthorOrAdmin ==
  [][/\ (IsIdle(1) /\ req'[1].op = "getBlogBySlug") =>
          \/ blogs[req'[1].id].status = "published"
          \/ (req'[1].user # None /\ users[req'[1].user].role = "admin")
     /\ \A b \in DOMAIN blogs :
          blogs[b].status # "published" => blogs'[b].views = blogs[b].views]_vars

\* C34: every createComment that succeeds contributes exactly 1 to the blog's
\* commentsCount, whatever createComment and deleteComment calls on the blog
\* overlap it: the step in which it saves and answers raises the stored
\* commentsCount by one.
C34_EachCommentCountsOnce ==
  [][\A r \in Slots :
       (Saved(r, "createComment") /\ resp' = "Created") =>
          blogs'[req[r].id].commentsCount = blogs[req[r].id].commentsCount + 1]_vars

\* C35: publication does not survive a change of title or body: a step that
\* changes the title or the content of a blog never leaves the blog published,
\* so a published blog has the title and the body it had when approveBlog was
\* last applied, also when updateBlog and approveBlog overlap.
C35_ChangeUnpublishes ==
  [][\A b \in DOMAIN blogs :
       (blogs'[b].title # blogs[b].title \/ blogs'[b].content # blogs[b].content)
          => blogs'[b].status # "published"]_vars

\* C36: in every reachable state the commentsCount of every blog is at least 0.
C36_CommentsCountNotNegative ==
  \A b \in DOMAIN blogs : blogs[b].commentsCount >= 0

\* C37: in every reachable state every reply belongs to the blog of its
\* parent: a comment with parentComment p has the blog of p.
C37_ReplyOnParentsBlog ==
  \A c \in DOMAIN comments :
    comments[c].parentComment # 0 =>
       comments[c].blog = comments[comments[c].parentComment].blog

\* C38: starting with an active admin, every reachable state has at least one
\* principal that is active and of role admin, for every interleaving of
\* toggleUserStatus, updateUserRole and deleteUser calls by admins.
C38_SomeActiveAdmin ==
  \E u \in Users : users[u].isActive /\ users[u].role = "admin"
====
